---------------------------- MODULE Spec2Model ----------------------------
(***************************************************************************)
(* A model of the three reusable components of CppWorkshop:                *)
(*   PoolAllocator<type, pool_size>   (Allocators/PoolAllocator.h)         *)
(*   com_ptr<IUnknown>                (Wrappers/com_ptr.h)                 *)
(*   TrackingAllocator<T>             (Allocators/TrackingAllocator.h)     *)
(* Memory is modelled in 8-byte words.  An address is a word index; a      *)
(* pointer value is an address.  A PoolEntry is one word for `next`        *)
(* followed by MemWords words for `mem`.                                   *)
(***************************************************************************)
EXTENDS Integers, Sequences, FiniteSets

(***************************************************************************)
(* PoolAllocator: layout                                                   *)
(***************************************************************************)

\* Template parameter pool_size of the only instantiation, PoolAllocator<Tank, 3>.
pool_size == 3

\* sizeof(PoolEntry::mem) in words, for an element type of one word.
MemWords == 1

\* How many destruct calls on a pointer that construct did not hand out the model
\* follows once verifyEntryWithinPool has let them through.
MaxWild == 1

\* The null pointer.
NULL == 0

\* sizeof(PoolEntry) in words: the `next` pointer and the inline storage.
EntryWords == 1 + MemWords

\* sizeof(PoolEntry*) in words, the offset getEntry subtracts.
NextWords == 1

\* Address of _pool[0]; the words below it belong to other objects.
PoolBase == 2

\* &_pool[i]; Entry(pool_size) is the one-past-the-end address &_pool[pool_size].
Entry(i) == PoolBase + i * EntryWords

PoolEnd == Entry(pool_size)

\* The words of the member array _pool.
PoolAddrs == PoolBase .. (PoolEnd - 1)

\* &ENTRY_IN_USE: the address of the static marker object, outside every pool.
ENTRY_IN_USE == PoolEnd + EntryWords + 1

\* Contents a word of `mem` can hold: what an element constructor writes, or what
\* the storage held before the pool was built (it is never initialised).
DataVals == {NULL, ENTRY_IN_USE}

\* Pointer arguments a caller can hand to destruct: null, an object below the pool,
\* every word of the pool, and the objects right after the pool.
Pointers == 0 .. (PoolEnd + EntryWords)

VARIABLES
    _allocation_count,  \* size_t; a negative n stands for 2^64 + n (wrapped)
    _next_free,         \* PoolEntry*
    _pool,              \* the words of _pool[pool_size]
    objs,               \* history: pointers construct returned, not yet destructed
    freed,              \* history: pointers destructed and not yet handed out again
    recent,             \* history: objects destructed since the last construct call
    wild,               \* history: accepted destructs of pointers not handed out
    streak,             \* history: constructs in a row since the pool was built, or -1
    last,               \* history: the last call and its outcome
    dtor,               \* history: the pointer the last call ran ~type() on, or NULL
    owner,              \* the unique_ptr / shared_ptr owners of each object pointer
    alive,              \* com_ptr objects constructed and not yet destroyed
    m_pUnknown,         \* com_ptr::m_pUnknown of each handle
    m_AddCount,         \* MockResource::m_AddCount of each resource
    m_DecCount,         \* MockResource::m_DecCount of each resource
    wrapped,            \* history: how each resource has been bound from a raw pointer
    calls,              \* history: the AddRef/Release calls of the last operation
    comLast,            \* history: the last com_ptr operation and its operands
    slot,               \* the &m_pUnknown GetPP has just returned, or NULL
    filled,             \* history: handles whose pointer was written through GetPP
    _numAllocations,    \* unsigned int; a negative n stands for 2^32 + n (wrapped)
    _totalAllocationsSize,  \* size_t; a negative n stands for 2^64 + n (wrapped)
    heap,               \* the blocks malloc hands out: in use or not, and the header word
    tLast,              \* history: the last TrackingAllocator call and its outcome
    tcalls,             \* history: the malloc/free calls of the last operation
    before,             \* history: the counters as they were before the last allocate
    misused,            \* history: deallocate was given a pointer that was not live
    peer                \* a second PoolAllocator<type, pool_size>: its members and history

poolVars == <<_allocation_count, _next_free, _pool>>
histVars == <<objs, freed, recent, wild, streak, last, dtor>>
ownVars == <<owner>>
comVars == <<alive, m_pUnknown, m_AddCount, m_DecCount, wrapped, calls, comLast,
             slot, filled>>
peerVars == <<peer>>
trackVars == <<_numAllocations, _totalAllocationsSize, heap, tLast, tcalls, before,
               misused>>
vars == <<_allocation_count, _next_free, _pool, objs, freed, recent, wild, streak, last,
          alive, m_pUnknown, m_AddCount, m_DecCount, wrapped, calls, comLast,
          slot, filled,
          _numAllocations, _totalAllocationsSize, heap, tLast, tcalls, before, misused,
          dtor, owner, peer>>

Call(op, res, ret) == [op |-> op, res |-> res, ret |-> ret]

(***************************************************************************)
(* PoolAllocator: operations                                               *)
(***************************************************************************)

\* The loop of reset(): thread entry i in front of the list built so far.
RECURSIVE ResetLoop(_, _, _)
ResetLoop(i, nf, pool) ==
    IF i < pool_size
    THEN ResetLoop(i + 1, Entry(i), [pool EXCEPT ![Entry(i)] = nf])
    ELSE [next_free |-> nf, pool |-> pool]

\* reset(): count to zero, list rebuilt; the `mem` words are left as they are.
\* A reset that leaves _pool[0] off the free list.
ResetStateShort(pool) == ResetLoop(1, NULL, pool)

\* A reset that threads the entries the other way round: _pool[0] ends up as head.
ResetStateAscending(pool) ==
    [next_free |-> Entry(0),
     pool |-> [a \in PoolAddrs |->
                 IF \E i \in 0 .. (pool_size - 1) : a = Entry(i)
                 THEN IF a = Entry(pool_size - 1) THEN NULL ELSE a + EntryWords
                 ELSE pool[a]]]

ResetState(pool) == ResetLoop(0, NULL, pool)

\* unsigned int getAllocCount(); a negative n stands for 2^32 + n.
getAllocCount == _allocation_count

\* unsigned int getFreeCount(); a negative n stands for 2^32 + n.
getFreeCount == pool_size - _allocation_count

getPoolSize == pool_size

\* The guard of construct.
\* A capacity test that lets one construct too many through.
PoolFullPastEnd == _allocation_count > pool_size

PoolFull == _allocation_count = pool_size

\* getEntry(pMem): step back over the `next` pointer.
getEntry(pMem) == pMem - NextWords

\* verifyEntryWithinPool, first test.
OutsidePool(pEntry) == pEntry < PoolBase \/ pEntry >= PoolEnd

\* verifyEntryWithinPool, second test (pEntry is inside the pool here).
NotInUse(pEntry) == _pool[pEntry] # ENTRY_IN_USE

\* verifyEntryWithinPool(getEntry(pMem)) returns without throwing.
Accepts(pMem) ==
    LET pEntry == getEntry(pMem) IN
    /\ ~OutsidePool(pEntry)
    /\ ~NotInUse(pEntry)

\* Placement new of one element at `at`: the constructor writes its value into
\* every word of the object; words past the pool belong to other objects.
PlaceObject(pool, at, v) ==
    [a \in PoolAddrs |->
        IF a >= at /\ a < at + MemWords THEN v ELSE pool[a]]

PoolInit ==
    /\ \E garbage \in [PoolAddrs -> DataVals] :
          LET r == ResetState(garbage) IN
          /\ _next_free = r.next_free
          /\ _pool = r.pool
    /\ _allocation_count = 0
    /\ objs = {}
    /\ freed = <<>>
    /\ recent = {}
    /\ wild = 0
    /\ streak = 0
    /\ last = Call("init", "ok", NULL)
    /\ dtor = NULL

Running == last.res # "undefined"

\* A reset that rebuilds the free list and leaves the count as it is.
ResetKeepsCount ==
    /\ Running
    /\ LET r == ResetState(_pool) IN
       /\ _next_free' = r.next_free
       /\ _pool' = r.pool
    /\ objs' = {}
    /\ freed' = <<>>
    /\ recent' = {}
    /\ streak' = 0
    /\ last' = Call("reset", "ok", NULL)
    /\ dtor' = NULL
    /\ UNCHANGED <<_allocation_count, wild, comVars, trackVars, ownVars, peerVars>>

\* reset(): count to zero, every entry threaded on the free list; no destructor runs.
Reset ==
    /\ Running
    /\ LET r == ResetState(_pool) IN
       /\ _next_free' = r.next_free
       /\ _pool' = r.pool
    /\ _allocation_count' = 0
    /\ objs' = {}
    /\ freed' = <<>>
    /\ recent' = {}
    /\ streak' = 0
    /\ last' = Call("reset", "ok", NULL)
    /\ dtor' = NULL
    /\ UNCHANGED <<wild, comVars, trackVars, ownVars, peerVars>>

\* construct() on a full pool: std::bad_alloc before anything is touched.
ConstructThrows(v) ==
    /\ Running
    /\ PoolFull
    /\ last' = Call("construct", "bad_alloc", NULL)
    /\ recent' = {}
    /\ streak' = -1
    /\ dtor' = NULL
    /\ UNCHANGED <<poolVars, objs, freed, wild, comVars, trackVars>>

ConstructFull(v) == ConstructThrows(v) /\ UNCHANGED <<ownVars, peerVars>>

\* construct() popping an entry of the pool.
ConstructPops(v) ==
    /\ Running
    /\ ~PoolFull
    /\ _next_free \in PoolAddrs
    /\ LET allocation == _next_free
           popped == [_pool EXCEPT ![allocation] = ENTRY_IN_USE]
       IN
       /\ _allocation_count' = _allocation_count + 1
       /\ _next_free' = _pool[allocation]
       /\ _pool' = PlaceObject(popped, allocation + NextWords, v)
       /\ objs' = objs \cup {allocation + NextWords}
       /\ freed' = IF freed = <<>> THEN freed ELSE Tail(freed)
       /\ recent' = {}
       /\ last' = Call("construct", "ok", allocation + NextWords)
    /\ streak' = IF streak >= 0 THEN streak + 1 ELSE -1
    /\ dtor' = NULL
    /\ UNCHANGED <<wild, comVars, trackVars>>

ConstructOk(v) == ConstructPops(v) /\ UNCHANGED <<ownVars, peerVars>>

\* construct() when _next_free is null or points outside the pool: allocation->next
\* is read and written through a pointer to no PoolEntry.  What follows is not
\* described by this model.
ConstructStrays(v) ==
    /\ Running
    /\ ~PoolFull
    /\ _next_free \notin PoolAddrs
    /\ last' = Call("construct", "undefined", NULL)
    /\ streak' = -1
    /\ dtor' = NULL
    /\ UNCHANGED <<poolVars, objs, freed, recent, wild, comVars, trackVars>>

ConstructWild(v) == ConstructStrays(v) /\ UNCHANGED <<ownVars, peerVars>>

\* A destruct that counts the release down before it verifies the pointer.
DestructRejectsLate(pMem) ==
    /\ Running
    /\ ~Accepts(pMem)
    /\ _allocation_count' = _allocation_count - 1
    /\ last' = Call("destruct", "invalid_argument", NULL)
    /\ streak' = -1
    /\ dtor' = NULL
    /\ UNCHANGED <<_next_free, _pool, objs, freed, recent, wild, comVars, trackVars>>

\* destruct(pMem) rejected by verifyEntryWithinPool.
DestructRejects(pMem) ==
    /\ Running
    /\ ~Accepts(pMem)
    /\ last' = Call("destruct", "invalid_argument", NULL)
    /\ streak' = -1
    /\ dtor' = NULL
    /\ UNCHANGED <<poolVars, objs, freed, recent, wild, comVars, trackVars>>

DestructThrow(pMem) == DestructRejects(pMem) /\ UNCHANGED <<ownVars, peerVars>>

\* destruct(pMem) accepted: ~type() runs and the entry is pushed on the free list.
DestructPushes(pMem) ==
    /\ Running
    /\ pMem \in objs \/ wild < MaxWild
    /\ Accepts(pMem)
    /\ LET pEntry == getEntry(pMem) IN
       /\ _pool' = [_pool EXCEPT ![pEntry] = _next_free]
       /\ _next_free' = pEntry
    /\ _allocation_count' = _allocation_count - 1
    /\ objs' = objs \ {pMem}
    /\ freed' = <<pMem>> \o freed
    /\ recent' = IF pMem \in objs THEN recent \cup {pMem} ELSE recent
    /\ wild' = IF pMem \in objs THEN wild ELSE wild + 1
    /\ streak' = -1
    /\ last' = Call("destruct", "ok", NULL)
    /\ dtor' = pMem
    /\ UNCHANGED <<comVars, trackVars>>

DestructOk(pMem) == DestructPushes(pMem) /\ UNCHANGED <<ownVars, peerVars>>

PoolNext ==
    \/ Reset
    \/ \E v \in DataVals : ConstructFull(v)
    \/ \E v \in DataVals : ConstructOk(v)
    \/ \E v \in DataVals : ConstructWild(v)
    \/ \E p \in Pointers : DestructThrow(p)
    \/ \E p \in Pointers : DestructOk(p)

\* construct() when the constructor of the element throws: the count, the free
\* list and the tag were written before the placement new, and nothing undoes
\* them; the exception leaves construct and no pointer is returned.  The
\* constructor may have written the object's words before it threw.
ConstructUnwinds(v, written) ==
    /\ Running
    /\ ~PoolFull
    /\ _next_free \in PoolAddrs
    /\ LET allocation == _next_free
           popped == [_pool EXCEPT ![allocation] = ENTRY_IN_USE]
       IN
       /\ _allocation_count' = _allocation_count + 1
       /\ _next_free' = _pool[allocation]
       /\ _pool' = IF written
                   THEN PlaceObject(popped, allocation + NextWords, v)
                   ELSE popped
    /\ freed' = IF freed = <<>> THEN freed ELSE Tail(freed)
    /\ recent' = {}
    /\ last' = Call("construct", "exception", NULL)
    /\ streak' = -1
    /\ dtor' = NULL
    /\ UNCHANGED <<objs, wild, comVars, trackVars>>

ConstructCtorThrows(v, written) ==
    ConstructUnwinds(v, written) /\ UNCHANGED <<ownVars, peerVars>>

\* The operations of the pool, for an element type whose constructor can throw.
ThrowNext ==
    \/ Reset
    \/ \E v \in DataVals : ConstructFull(v)
    \/ \E v \in DataVals : ConstructOk(v)
    \/ \E v \in DataVals : ConstructWild(v)
    \/ \E v \in DataVals : \E written \in BOOLEAN : ConstructCtorThrows(v, written)
    \/ \E p \in Pointers : DestructThrow(p)
    \/ \E p \in Pointers : DestructOk(p)

\* Element values once more, now with one that is also the address of a pool
\* entry: the bits of an element are whatever its owner stores in it.
AliasVals == DataVals \cup {Entry(1)}

\* The operations of the pool, on elements that may hold such a value.
AliasNext ==
    \/ Reset
    \/ \E v \in AliasVals : ConstructFull(v)
    \/ \E v \in AliasVals : ConstructOk(v)
    \/ \E v \in AliasVals : ConstructWild(v)
    \/ \E p \in Pointers : DestructThrow(p)
    \/ \E p \in Pointers : DestructOk(p)

(***************************************************************************)
(* PoolAllocator::make_unique, make_shared and Deletor                     *)
(***************************************************************************)

\* The largest use count of a std::shared_ptr the model follows.
MaxShare == 2

\* How many objects have owning handles at once.
MaxOwned == 1

Unowned == [kind |-> "none", count |-> 0]

Owned(kind, count) == [kind |-> kind, count |-> count]

OwnInit == owner = [p \in Pointers |-> Unowned]

\* The handle about to be released is the unique owner or the last shared owner.
LastOwner(p) ==
    \/ owner[p].kind = "unique"
    \/ (owner[p].kind = "shared" /\ owner[p].count = 1)

\* make_unique / make_shared: construct, then wrap the pointer with Deletor(this).
MakeOk(kind, v) ==
    /\ Cardinality({p \in Pointers : owner[p].kind # "none"}) < MaxOwned
    /\ ConstructPops(v)
    /\ owner' = [owner EXCEPT ![_next_free + NextWords] = Owned(kind, 1)]
    /\ UNCHANGED peerVars

\* make_unique / make_shared on a full pool: construct throws, no handle is made.
MakeFull(kind, v) ==
    /\ ConstructThrows(v)
    /\ UNCHANGED <<owner, peerVars>>

\* make_unique / make_shared when construct strays off the pool.
MakeWild(kind, v) ==
    /\ ConstructStrays(v)
    /\ UNCHANGED <<owner, peerVars>>

\* Copying a std::shared_ptr: one more owner, the pool is not involved.
CopyShared(p) ==
    /\ Running
    /\ owner[p].kind = "shared"
    /\ owner[p].count < MaxShare
    /\ owner' = [owner EXCEPT ![p].count = @ + 1]
    /\ UNCHANGED <<poolVars, histVars, comVars, trackVars, peerVars>>

\* Releasing a shared owner that is not the last one: the deleter is not called.
ReleaseKeep(p) ==
    /\ Running
    /\ owner[p].kind = "shared"
    /\ owner[p].count > 1
    /\ owner' = [owner EXCEPT ![p].count = @ - 1]
    /\ UNCHANGED <<poolVars, histVars, comVars, trackVars, peerVars>>

\* Releasing the last owner: Deletor::operator() calls _pPool->destruct(pMem),
\* which accepts the pointer.
ReleaseDestruct(p) ==
    /\ LastOwner(p)
    /\ DestructPushes(p)
    /\ owner' = [owner EXCEPT ![p] = Unowned]
    /\ UNCHANGED peerVars

\* Releasing the last owner when destruct rejects the pointer.
ReleaseThrow(p) ==
    /\ LastOwner(p)
    /\ DestructRejects(p)
    /\ owner' = [owner EXCEPT ![p] = Unowned]
    /\ UNCHANGED peerVars

Kinds == {"unique", "shared"}

\* Owning handles next to plain construct and destruct calls; the calls of the
\* plain interface that throw are left to PoolNext.
OwnNext ==
    \/ \E v \in DataVals : ConstructOk(v)
    \/ \E p \in Pointers : DestructOk(p)
    \/ \E kind \in Kinds : \E v \in DataVals : MakeOk(kind, v)
    \/ \E kind \in Kinds : \E v \in DataVals : MakeFull(kind, v)
    \/ \E kind \in Kinds : \E v \in DataVals : MakeWild(kind, v)
    \/ \E p \in Pointers : CopyShared(p)
    \/ \E p \in Pointers : ReleaseKeep(p)
    \/ \E p \in Pointers : ReleaseDestruct(p)
    \/ \E p \in Pointers : ReleaseThrow(p)

(***************************************************************************)
(* Two pools of one type and pool_size: A is the pool above, B a second    *)
(* object of the same class placed after the marker.  &ENTRY_IN_USE is a   *)
(* static member, so both tag their entries with the same address.         *)
(***************************************************************************)

\* Address of B._pool[0].
PeerBase == ENTRY_IN_USE + 1

\* &B._pool[i].
PeerEntry(i) == PeerBase + i * EntryWords

PeerEnd == PeerEntry(pool_size)

\* The words of B._pool.
PeerAddrs == PeerBase .. (PeerEnd - 1)

\* Every address inside B and the one just after it.
PeerPointers == PeerBase .. PeerEnd

\* A call on one of the two pools: which pool, the call, its outcome, its argument.
PeerCall(on, op, res, arg) == [on |-> on, op |-> op, res |-> res, arg |-> arg]

\* B.reset(): the same loop as ResetLoop, over B's entries.
RECURSIVE PeerResetLoop(_, _, _)
PeerResetLoop(i, nf, pool) ==
    IF i < pool_size
    THEN PeerResetLoop(i + 1, PeerEntry(i), [pool EXCEPT ![PeerEntry(i)] = nf])
    ELSE [next_free |-> nf, pool |-> pool]

\* B as its constructor leaves it over zeroed storage; objs and last are history,
\* as for A.
PeerInit ==
    LET r == PeerResetLoop(0, NULL, [a \in PeerAddrs |-> NULL]) IN
    peer = [allocation_count |-> 0,
            next_free |-> r.next_free,
            pool |-> r.pool,
            objs |-> {},
            last |-> PeerCall("none", "init", "ok", NULL)]

PairRunning == Running /\ peer.last.res # "undefined"

\* B.verifyEntryWithinPool(B.getEntry(pMem)) returns without throwing.
PeerAccepts(pMem) ==
    LET pEntry == getEntry(pMem) IN
    /\ ~(pEntry < PeerBase \/ pEntry >= PeerEnd)
    /\ ~(peer.pool[pEntry] # ENTRY_IN_USE)

\* B.construct popping an entry of B.
PeerConstruct(v) ==
    /\ PairRunning
    /\ peer.allocation_count # pool_size
    /\ peer.next_free \in PeerAddrs
    /\ LET allocation == peer.next_free
           popped == [peer.pool EXCEPT ![allocation] = ENTRY_IN_USE]
           at == allocation + NextWords
       IN
       peer' = [peer EXCEPT
                  !.allocation_count = @ + 1,
                  !.next_free = peer.pool[allocation],
                  !.pool = [a \in PeerAddrs |->
                               IF a >= at /\ a < at + MemWords THEN v ELSE popped[a]],
                  !.objs = @ \cup {at},
                  !.last = PeerCall("B", "construct", "ok", NULL)]
    /\ UNCHANGED <<poolVars, histVars, ownVars, comVars, trackVars>>

\* B.destruct(pMem) rejected by B.verifyEntryWithinPool.
PeerDestructThrow(pMem) ==
    /\ PairRunning
    /\ ~PeerAccepts(pMem)
    /\ peer' = [peer EXCEPT
                  !.last = PeerCall("B", "destruct", "invalid_argument", pMem)]
    /\ UNCHANGED <<poolVars, histVars, ownVars, comVars, trackVars>>

\* B.destruct(pMem) accepted.
PeerDestructOk(pMem) ==
    /\ PairRunning
    /\ PeerAccepts(pMem)
    /\ peer' = [peer EXCEPT
                  !.pool = [@ EXCEPT ![getEntry(pMem)] = peer.next_free],
                  !.next_free = getEntry(pMem),
                  !.allocation_count = @ - 1,
                  !.objs = @ \ {pMem},
                  !.last = PeerCall("B", "destruct", "ok", pMem)]
    /\ UNCHANGED <<poolVars, histVars, ownVars, comVars, trackVars>>

\* A.construct, A.destruct accepted, A.destruct rejected, with B looking on.
PairConstruct(v) ==
    /\ PairRunning
    /\ ConstructPops(v)
    /\ peer' = [peer EXCEPT !.last = PeerCall("A", "construct", "ok", NULL)]
    /\ UNCHANGED ownVars

PairDestructOk(pMem) ==
    /\ PairRunning
    /\ DestructPushes(pMem)
    /\ peer' = [peer EXCEPT !.last = PeerCall("A", "destruct", "ok", pMem)]
    /\ UNCHANGED ownVars

\* A rejected destruct that counts the release down in the other pool.
PairDestructThrowForwards(pMem) ==
    /\ PairRunning
    /\ DestructRejects(pMem)
    /\ peer' = [peer EXCEPT
                  !.allocation_count = IF pMem \in peer.objs THEN @ - 1 ELSE @,
                  !.last = PeerCall("A", "destruct", "invalid_argument", pMem)]
    /\ UNCHANGED ownVars

PairDestructThrow(pMem) ==
    /\ PairRunning
    /\ DestructRejects(pMem)
    /\ peer' = [peer EXCEPT
                  !.last = PeerCall("A", "destruct", "invalid_argument", pMem)]
    /\ UNCHANGED ownVars

\* Each pool is given its own live objects and the other pool's.
PairNext ==
    \/ \E v \in DataVals : PairConstruct(v)
    \/ \E p \in objs \cup peer.objs : PairDestructOk(p)
    \/ \E p \in objs \cup peer.objs : PairDestructThrow(p)
    \/ \E v \in DataVals : PeerConstruct(v)
    \/ \E p \in peer.objs \cup objs : PeerDestructOk(p)
    \/ \E p \in peer.objs \cup objs : PeerDestructThrow(p)

(***************************************************************************)
(* com_ptr<MockResource>                                                   *)
(***************************************************************************)

\* How many com_ptr objects exist at once.
MaxHandles == 2

\* The largest m_AddCount and m_DecCount the model follows.
MaxCount == 2

Handles == 1 .. MaxHandles

\* The addresses of two MockResource objects (mock1 and mock2 of the tests).
Resources == {1, 2}

\* MockResource(): m_AddCount(1), m_DecCount(0).
InitialAddCount == 1

Counts(add, dec, cs) == [add |-> add, dec |-> dec, calls |-> cs]

\* MockResource::AddRef on the resource at r.
AddRef(r, c) ==
    [c EXCEPT !.add[r] = @ + 1, !.calls = Append(@, <<"AddRef", r>>)]

\* A Release that counts twice.
ReleaseTwice(r, c) ==
    [c EXCEPT !.dec[r] = @ + 2,
              !.calls = Append(Append(@, <<"Release", r>>), <<"Release", r>>)]

\* MockResource::Release on the resource at r.
Release(r, c) ==
    [c EXCEPT !.dec[r] = @ + 1, !.calls = Append(@, <<"Release", r>>)]

\* An Inc that never reaches AddRef.
IncNever(p, c) == c

\* com_ptr::Inc with m_pUnknown = p.
Inc(p, c) == IF p # NULL THEN AddRef(p, c) ELSE c

\* A Dec that never reaches Release.
DecNever(p, c) == c

\* A Dec without its null test.
DecUnchecked(p, c) == Release(p, c)

\* com_ptr::Dec with m_pUnknown = p.
Dec(p, c) == IF p # NULL THEN Release(p, c) ELSE c

\* MockResource::GetRefCount.
GetRefCount(r) == m_AddCount[r] - m_DecCount[r]

\* com_ptr::Get.
Get(h) == m_pUnknown[h]

\* A boolean conversion that is true of every handle.
BoolAlways(h) == TRUE

\* com_ptr::operator bool.
Bool(h) == m_pUnknown[h] # NULL

\* An equality that tells two empty handles apart.
EqualsBothBound(a, b) == m_pUnknown[a] = m_pUnknown[b] /\ m_pUnknown[a] # NULL

\* com_ptr::operator==(const com_ptr&).
Equals(a, b) == m_pUnknown[a] = m_pUnknown[b]

\* com_ptr::operator==(std::nullptr_t).
EqualsNull(a) == m_pUnknown[a] = NULL

\* com_ptr::operator!=(const com_ptr&).
NotEquals(a, b) == m_pUnknown[a] # m_pUnknown[b]

\* com_ptr::operator!=(std::nullptr_t).
NotEqualsNull(a) == m_pUnknown[a] # NULL

Before == Counts(m_AddCount, m_DecCount, <<>>)

\* Commit the counters and the call log an operation produced.
Effects(c) ==
    /\ \A r \in Resources : c.add[r] <= MaxCount /\ c.dec[r] <= MaxCount
    /\ m_AddCount' = c.add
    /\ m_DecCount' = c.dec
    /\ calls' = c.calls

\* The operation just performed: dst is the handle it acted on, src the handle it
\* was given, or the raw pointer for the constructor that takes one.
ComOp(op, dst, src) == [op |-> op, dst |-> dst, src |-> src]

\* A resource bound from a raw pointer once more.
Wrap(p) ==
    IF p = NULL THEN wrapped
    ELSE [wrapped EXCEPT ![p] = IF @ = "never" THEN "once" ELSE "again"]

\* A handle bound to p has been assigned to itself.
SelfAssigned(p) ==
    IF p = NULL THEN wrapped ELSE [wrapped EXCEPT ![p] = "again"]

ComInit ==
    /\ alive = {}
    /\ m_pUnknown = [h \in Handles |-> NULL]
    /\ m_AddCount = [r \in Resources |-> InitialAddCount]
    /\ m_DecCount = [r \in Resources |-> 0]
    /\ wrapped = [r \in Resources |-> "never"]
    /\ calls = <<>>
    /\ comLast = ComOp("none", NULL, NULL)
    /\ slot = NULL
    /\ filled = {}

\* com_ptr() : m_pUnknown(nullptr)
DefaultConstruct(h) ==
    /\ h \notin alive
    /\ alive' = alive \cup {h}
    /\ m_pUnknown' = [m_pUnknown EXCEPT ![h] = NULL]
    /\ Effects(Before)
    /\ comLast' = ComOp("default", h, NULL)
    /\ slot' = NULL
    /\ filled' = filled \ {h}
    /\ UNCHANGED <<poolVars, histVars, trackVars, ownVars, peerVars>>
    /\ UNCHANGED wrapped

\* A raw-pointer constructor that takes a reference of its own.
ConstructRawCounted(h, pResource) ==
    /\ h \notin alive
    /\ alive' = alive \cup {h}
    /\ m_pUnknown' = [m_pUnknown EXCEPT ![h] = pResource]
    /\ Effects(Inc(pResource, Before))
    /\ wrapped' = Wrap(pResource)
    /\ comLast' = ComOp("raw", h, pResource)
    /\ slot' = NULL
    /\ filled' = filled \ {h}
    /\ UNCHANGED <<poolVars, histVars, trackVars, ownVars, peerVars>>

\* com_ptr(IUnknown* pResource) : m_pUnknown(pResource)
ConstructRaw(h, pResource) ==
    /\ h \notin alive
    /\ alive' = alive \cup {h}
    /\ m_pUnknown' = [m_pUnknown EXCEPT ![h] = pResource]
    /\ Effects(Before)
    /\ wrapped' = Wrap(pResource)
    /\ comLast' = ComOp("raw", h, pResource)
    /\ slot' = NULL
    /\ filled' = filled \ {h}
    /\ UNCHANGED <<poolVars, histVars, trackVars, ownVars, peerVars>>

\* com_ptr(com_ptr&& rhs) : m_pUnknown(std::exchange(rhs.m_pUnknown, nullptr))
MoveConstruct(h, rhs) ==
    /\ h \notin alive
    /\ rhs \in alive
    /\ alive' = alive \cup {h}
    /\ m_pUnknown' = [m_pUnknown EXCEPT ![h] = m_pUnknown[rhs], ![rhs] = NULL]
    /\ Effects(Before)
    /\ comLast' = ComOp("move", h, rhs)
    /\ slot' = NULL
    /\ filled' = filled \ {h, rhs}
    /\ UNCHANGED <<poolVars, histVars, trackVars, ownVars, peerVars>>
    /\ UNCHANGED wrapped

\* com_ptr(const com_ptr& rhs) : m_pUnknown(rhs.m_pUnknown) { Inc(); }
CopyConstruct(h, rhs) ==
    /\ h \notin alive
    /\ rhs \in alive
    /\ alive' = alive \cup {h}
    /\ m_pUnknown' = [m_pUnknown EXCEPT ![h] = m_pUnknown[rhs]]
    /\ Effects(Inc(m_pUnknown[rhs], Before))
    /\ comLast' = ComOp("copy", h, rhs)
    /\ slot' = NULL
    /\ filled' = filled \ {h}
    /\ UNCHANGED <<poolVars, histVars, trackVars, ownVars, peerVars>>
    /\ UNCHANGED wrapped

\* ~com_ptr() { Dec(); }  The storage of the handle is gone afterwards.
Destroy(h) ==
    /\ h \in alive
    /\ alive' = alive \ {h}
    /\ m_pUnknown' = [m_pUnknown EXCEPT ![h] = NULL]
    /\ Effects(Dec(m_pUnknown[h], Before))
    /\ comLast' = ComOp("destroy", h, NULL)
    /\ slot' = NULL
    /\ filled' = filled \ {h}
    /\ UNCHANGED <<poolVars, histVars, trackVars, ownVars, peerVars>>
    /\ UNCHANGED wrapped

\* A null-assignment that releases but keeps the pointer.
AssignNullKeeps(h) ==
    /\ h \in alive
    /\ Effects(Dec(m_pUnknown[h], Before))
    /\ comLast' = ComOp("assign_null", h, NULL)
    /\ slot' = NULL
    /\ filled' = filled \ {h}
    /\ UNCHANGED <<poolVars, histVars, trackVars, ownVars, peerVars>>
    /\ UNCHANGED <<alive, wrapped, m_pUnknown>>

\* operator=(std::nullptr_t) { Dec(); m_pUnknown = nullptr; }
AssignNull(h) ==
    /\ h \in alive
    /\ m_pUnknown' = [m_pUnknown EXCEPT ![h] = NULL]
    /\ Effects(Dec(m_pUnknown[h], Before))
    /\ comLast' = ComOp("assign_null", h, NULL)
    /\ slot' = NULL
    /\ filled' = filled \ {h}
    /\ UNCHANGED <<poolVars, histVars, trackVars, ownVars, peerVars>>
    /\ UNCHANGED <<alive, wrapped>>

\* A copy-assignment that takes the new reference before it drops the old one.
CopyAssignAddFirst(h, rhs) ==
    /\ h \in alive
    /\ rhs \in alive
    /\ LET added == Inc(m_pUnknown[rhs], Before)
           assigned == [m_pUnknown EXCEPT ![h] = m_pUnknown[rhs]]
       IN
       /\ m_pUnknown' = assigned
       /\ Effects(Dec(m_pUnknown[h], added))
    /\ wrapped' = IF h = rhs THEN SelfAssigned(m_pUnknown[h]) ELSE wrapped
    /\ comLast' = ComOp("copy_assign", h, rhs)
    /\ slot' = NULL
    /\ filled' = filled \ {h}
    /\ UNCHANGED <<poolVars, histVars, trackVars, ownVars, peerVars>>
    /\ UNCHANGED alive

\* operator=(const com_ptr& rhs) { Dec(); m_pUnknown = rhs.m_pUnknown; Inc(); }
CopyAssign(h, rhs) ==
    /\ h \in alive
    /\ rhs \in alive
    /\ LET released == Dec(m_pUnknown[h], Before)
           assigned == [m_pUnknown EXCEPT ![h] = m_pUnknown[rhs]]
       IN
       /\ m_pUnknown' = assigned
       /\ Effects(Inc(assigned[h], released))
    /\ wrapped' = IF h = rhs THEN SelfAssigned(m_pUnknown[h]) ELSE wrapped
    /\ comLast' = ComOp("copy_assign", h, rhs)
    /\ slot' = NULL
    /\ filled' = filled \ {h}
    /\ UNCHANGED <<poolVars, histVars, trackVars, ownVars, peerVars>>
    /\ UNCHANGED alive

\* A move-assignment that leaves the source holding its pointer.
MoveAssignKeepsSource(h, rhs) ==
    /\ h \in alive
    /\ rhs \in alive
    /\ m_pUnknown' = [m_pUnknown EXCEPT ![h] = m_pUnknown[rhs]]
    /\ Effects(Dec(m_pUnknown[h], Before))
    /\ wrapped' = IF h = rhs THEN SelfAssigned(m_pUnknown[h]) ELSE wrapped
    /\ comLast' = ComOp("move_assign", h, rhs)
    /\ slot' = NULL
    /\ filled' = filled \ {h, rhs}
    /\ UNCHANGED <<poolVars, histVars, trackVars, ownVars, peerVars>>
    /\ UNCHANGED alive

\* A move-assignment that forgets what the destination held.
MoveAssignLeaky(h, rhs) ==
    /\ h \in alive
    /\ rhs \in alive
    /\ LET old == m_pUnknown[rhs]
           cleared == [m_pUnknown EXCEPT ![rhs] = NULL]
       IN m_pUnknown' = [cleared EXCEPT ![h] = old]
    /\ Effects(Before)
    /\ wrapped' = IF h = rhs THEN SelfAssigned(m_pUnknown[h]) ELSE wrapped
    /\ comLast' = ComOp("move_assign", h, rhs)
    /\ slot' = NULL
    /\ filled' = filled \ {h, rhs}
    /\ UNCHANGED <<poolVars, histVars, trackVars, ownVars, peerVars>>
    /\ UNCHANGED alive

\* operator=(com_ptr&& rhs) { Dec(); m_pUnknown = std::exchange(rhs.m_pUnknown, nullptr); }
MoveAssign(h, rhs) ==
    /\ h \in alive
    /\ rhs \in alive
    /\ LET released == Dec(m_pUnknown[h], Before)
           old == m_pUnknown[rhs]
           cleared == [m_pUnknown EXCEPT ![rhs] = NULL]
       IN
       /\ m_pUnknown' = [cleared EXCEPT ![h] = old]
       /\ Effects(released)
    /\ wrapped' = IF h = rhs THEN SelfAssigned(m_pUnknown[h]) ELSE wrapped
    /\ comLast' = ComOp("move_assign", h, rhs)
    /\ slot' = NULL
    /\ filled' = filled \ {h, rhs}
    /\ UNCHANGED <<poolVars, histVars, trackVars, ownVars, peerVars>>
    /\ UNCHANGED alive

\* A GetPP without its guard: the slot of a handle that holds a resource is
\* handed out.
GetPPUnguarded(h) ==
    /\ h \in alive
    /\ m_pUnknown[h] # NULL
    /\ Effects(Before)
    /\ comLast' = ComOp("GetPP", h, NULL)
    /\ slot' = h
    /\ UNCHANGED <<poolVars, histVars, trackVars, ownVars, peerVars>>
    /\ UNCHANGED <<alive, m_pUnknown, wrapped, filled>>

\* GetPP on a handle that holds a resource: throws std::logic_error.
GetPPThrow(h) ==
    /\ h \in alive
    /\ m_pUnknown[h] # NULL
    /\ Effects(Before)
    /\ comLast' = ComOp("GetPP_logic_error", h, NULL)
    /\ slot' = NULL
    /\ UNCHANGED <<poolVars, histVars, trackVars, ownVars, peerVars>>
    /\ UNCHANGED <<alive, m_pUnknown, wrapped, filled>>

\* GetPP on a handle that holds nothing: return &m_pUnknown, which is the address
\* of the handle itself.
GetPPOk(h) ==
    /\ h \in alive
    /\ ~(m_pUnknown[h] # NULL)
    /\ Effects(Before)
    /\ comLast' = ComOp("GetPP", h, NULL)
    /\ slot' = h
    /\ UNCHANGED <<poolVars, histVars, trackVars, ownVars, peerVars>>
    /\ UNCHANGED <<alive, m_pUnknown, wrapped, filled>>

\* A store through the slot that also takes a reference.
SlotWriteCounted(pResource) ==
    /\ slot # NULL
    /\ m_pUnknown' = [m_pUnknown EXCEPT ![slot] = pResource]
    /\ Effects(Inc(pResource, Before))
    /\ wrapped' = Wrap(pResource)
    /\ comLast' = ComOp("write", slot, pResource)
    /\ filled' = IF pResource # NULL THEN filled \cup {slot} ELSE filled
    /\ slot' = NULL
    /\ UNCHANGED <<poolVars, histVars, trackVars, ownVars, peerVars>>
    /\ UNCHANGED alive

\* *p.GetPP() = pResource: the caller (a factory) stores a raw pointer through the
\* slot it has just been given.
SlotWrite(pResource) ==
    /\ slot # NULL
    /\ m_pUnknown' = [m_pUnknown EXCEPT ![slot] = pResource]
    /\ Effects(Before)
    /\ wrapped' = Wrap(pResource)
    /\ comLast' = ComOp("write", slot, pResource)
    /\ filled' = IF pResource # NULL THEN filled \cup {slot} ELSE filled
    /\ slot' = NULL
    /\ UNCHANGED <<poolVars, histVars, trackVars, ownVars, peerVars>>
    /\ UNCHANGED alive

ComNext ==
    \/ \E h \in Handles : DefaultConstruct(h)
    \/ \E h \in Handles : \E p \in Resources \cup {NULL} : ConstructRaw(h, p)
    \/ \E h \in Handles : \E rhs \in Handles : MoveConstruct(h, rhs)
    \/ \E h \in Handles : \E rhs \in Handles : CopyConstruct(h, rhs)
    \/ \E h \in Handles : Destroy(h)
    \/ \E h \in Handles : AssignNull(h)
    \/ \E h \in Handles : \E rhs \in Handles : CopyAssign(h, rhs)
    \/ \E h \in Handles : \E rhs \in Handles : MoveAssign(h, rhs)
    \/ \E h \in Handles : GetPPThrow(h)
    \/ \E h \in Handles : GetPPOk(h)
    \/ \E p \in Resources \cup {NULL} : SlotWrite(p)

(***************************************************************************)
(* TrackingAllocator<uint8_t>                                              *)
(* Sizes are size_t values. TLC's integers cannot hold 2^64, so a value of *)
(* 2^64 + n with a small negative n is written n: sums and products of     *)
(* such representatives are the sums and products modulo 2^64.             *)
(***************************************************************************)

\* How many blocks the heap can hold at once.
MaxBlocks == 2

\* The largest ordinary element count allocate is given.
MaxElems == 2

\* sizeof(uint64_t), the header in front of every block.
HeaderBytes == 8

\* sizeof(T) for the default T = uint8_t, the only instantiation.
ElemSize == 1

\* The addresses malloc can return, each taken as the address just after the header.
Blocks == 1 .. MaxBlocks

\* Element counts: ordinary ones, and SIZE_MAX - 7 and SIZE_MAX.
ElemCounts == (0 .. MaxElems) \cup {-HeaderBytes, -1}

\* size_t size = sizeof(uint64_t) + (count * sizeof(T))
SizeOf(count) == HeaderBytes + (count * ElemSize)

\* The sum above does not fit size_t: count is one of the huge ones and the
\* result came out small.
Wrapped(count) == count < 0 /\ SizeOf(count) >= 0

Block(live, header) == [live |-> live, header |-> header]

TCall(op, res, ret, arg) == [op |-> op, res |-> res, ret |-> ret, arg |-> arg]

Tally(num, total) == [num |-> num, total |-> total]

getNumAllocations == _numAllocations

getTotalAllocationsSize == _totalAllocationsSize

TrackInit ==
    /\ _numAllocations = 0
    /\ _totalAllocationsSize = 0
    /\ heap = [b \in Blocks |-> Block(FALSE, 0)]
    /\ tLast = TCall("init", "ok", NULL, NULL)
    /\ tcalls = <<>>
    /\ before = Tally(0, 0)
    /\ misused = FALSE

TRunning == tLast.res # "undefined"

\* An allocate that counts the allocation before it looks at what malloc returned.
AllocateFailCounted(count) ==
    /\ TRunning
    /\ tcalls' = << <<"malloc", SizeOf(count), NULL>> >>
    /\ tLast' = TCall("allocate", "bad_alloc", NULL, count)
    /\ before' = Tally(_numAllocations, _totalAllocationsSize)
    /\ _numAllocations' = _numAllocations + 1
    /\ UNCHANGED <<_totalAllocationsSize, heap, misused>>
    /\ UNCHANGED <<poolVars, histVars, comVars, ownVars, peerVars>>

\* allocate when malloc returns nullptr: throw std::bad_alloc.
AllocateFail(count) ==
    /\ TRunning
    /\ tcalls' = << <<"malloc", SizeOf(count), NULL>> >>
    /\ tLast' = TCall("allocate", "bad_alloc", NULL, count)
    /\ before' = Tally(_numAllocations, _totalAllocationsSize)
    /\ UNCHANGED <<_numAllocations, _totalAllocationsSize, heap, misused>>
    /\ UNCHANGED <<poolVars, histVars, comVars, ownVars, peerVars>>

\* An allocate that records the payload size only in the header.
AllocateOkShortHeader(count) ==
    /\ TRunning
    /\ \E b \in Blocks :
          /\ ~heap[b].live
          /\ LET size == SizeOf(count) IN
             /\ tcalls' = << <<"malloc", size, b>> >>
             /\ heap' = [heap EXCEPT ![b] = Block(TRUE, count * ElemSize)]
             /\ _numAllocations' = _numAllocations + 1
             /\ _totalAllocationsSize' = _totalAllocationsSize + size
          /\ tLast' = TCall("allocate", "ok", b, count)
    /\ before' = Tally(_numAllocations, _totalAllocationsSize)
    /\ UNCHANGED misused
    /\ UNCHANGED <<poolVars, histVars, comVars, ownVars, peerVars>>

\* allocate when malloc returns a block: store the size in the header, count the
\* allocation, return the address after the header.
AllocateOk(count) ==
    /\ TRunning
    /\ \E b \in Blocks :
          /\ ~heap[b].live
          /\ LET size == SizeOf(count) IN
             /\ tcalls' = << <<"malloc", size, b>> >>
             /\ heap' = [heap EXCEPT ![b] = Block(TRUE, size)]
             /\ _numAllocations' = _numAllocations + 1
             /\ _totalAllocationsSize' = _totalAllocationsSize + size
          /\ tLast' = TCall("allocate", "ok", b, count)
    /\ before' = Tally(_numAllocations, _totalAllocationsSize)
    /\ UNCHANGED misused
    /\ UNCHANGED <<poolVars, histVars, comVars, ownVars, peerVars>>

\* allocate when malloc returns a block smaller than the header: *header = size
\* writes past the end of the block.
AllocateOverrun(count) ==
    /\ TRunning
    /\ SizeOf(count) < HeaderBytes
    /\ \E b \in Blocks : ~heap[b].live
    /\ tcalls' = << <<"malloc", SizeOf(count), NULL>> >>
    /\ tLast' = TCall("allocate", "undefined", NULL, count)
    /\ before' = Tally(_numAllocations, _totalAllocationsSize)
    /\ UNCHANGED <<_numAllocations, _totalAllocationsSize, heap, misused>>
    /\ UNCHANGED <<poolVars, histVars, comVars, ownVars, peerVars>>

\* A deallocate that counts a null request down.
DeallocateNullCounted ==
    /\ TRunning
    /\ tcalls' = <<>>
    /\ tLast' = TCall("deallocate", "ok", NULL, NULL)
    /\ _numAllocations' = _numAllocations - 1
    /\ UNCHANGED <<_totalAllocationsSize, heap, before, misused>>
    /\ UNCHANGED <<poolVars, histVars, comVars, ownVars, peerVars>>

\* deallocate(nullptr): return at once.
DeallocateNull ==
    /\ TRunning
    /\ tcalls' = <<>>
    /\ tLast' = TCall("deallocate", "ok", NULL, NULL)
    /\ UNCHANGED <<_numAllocations, _totalAllocationsSize, heap, before, misused>>
    /\ UNCHANGED <<poolVars, histVars, comVars, ownVars, peerVars>>

\* A deallocate that leaves the total as it is.
DeallocateLiveKeepsTotal(pMem) ==
    /\ TRunning
    /\ pMem # NULL
    /\ heap[pMem].live
    /\ _numAllocations' = _numAllocations - 1
    /\ heap' = [heap EXCEPT ![pMem].live = FALSE]
    /\ tcalls' = << <<"free", pMem, NULL>> >>
    /\ tLast' = TCall("deallocate", "ok", NULL, pMem)
    /\ UNCHANGED <<_totalAllocationsSize, before, misused>>
    /\ UNCHANGED <<poolVars, histVars, comVars, ownVars, peerVars>>

\* deallocate of a block that is in use: subtract the header, count down, free.
DeallocateLive(pMem) ==
    /\ TRunning
    /\ pMem # NULL
    /\ heap[pMem].live
    /\ _totalAllocationsSize' = _totalAllocationsSize - heap[pMem].header
    /\ _numAllocations' = _numAllocations - 1
    /\ heap' = [heap EXCEPT ![pMem].live = FALSE]
    /\ tcalls' = << <<"free", pMem, NULL>> >>
    /\ tLast' = TCall("deallocate", "ok", NULL, pMem)
    /\ UNCHANGED <<before, misused>>
    /\ UNCHANGED <<poolVars, histVars, comVars, ownVars, peerVars>>

\* deallocate of a block that is not in use, where the read of the old header and
\* the second free go through: the counters move by what the header still holds.
DeallocateStale(pMem) ==
    /\ TRunning
    /\ pMem # NULL
    /\ ~heap[pMem].live
    /\ ~misused
    /\ _totalAllocationsSize' = _totalAllocationsSize - heap[pMem].header
    /\ _numAllocations' = _numAllocations - 1
    /\ tcalls' = << <<"free", pMem, NULL>> >>
    /\ tLast' = TCall("deallocate", "ok", NULL, pMem)
    /\ misused' = TRUE
    /\ UNCHANGED <<heap, before>>
    /\ UNCHANGED <<poolVars, histVars, comVars, ownVars, peerVars>>

\* deallocate of a block that is not in use, where the heap notices.
DeallocateCrash(pMem) ==
    /\ TRunning
    /\ pMem # NULL
    /\ ~heap[pMem].live
    /\ tcalls' = << <<"free", pMem, NULL>> >>
    /\ tLast' = TCall("deallocate", "undefined", NULL, pMem)
    /\ misused' = TRUE
    /\ UNCHANGED <<_numAllocations, _totalAllocationsSize, heap, before>>
    /\ UNCHANGED <<poolVars, histVars, comVars, ownVars, peerVars>>

TrackNext ==
    \/ \E count \in ElemCounts : AllocateFail(count)
    \/ \E count \in ElemCounts : AllocateOk(count)
    \/ \E count \in ElemCounts : AllocateOverrun(count)
    \/ DeallocateNull
    \/ \E p \in Blocks : DeallocateLive(p)
    \/ \E p \in Blocks : DeallocateStale(p)
    \/ \E p \in Blocks : DeallocateCrash(p)

(***************************************************************************)
(* Specifications: each component on its own, the other one idle.          *)
(***************************************************************************)

\* A pool nobody uses: constructed over zeroed storage.
PoolIdle ==
    /\ LET r == ResetState([a \in PoolAddrs |-> NULL]) IN
       /\ _next_free = r.next_free
       /\ _pool = r.pool
    /\ _allocation_count = 0
    /\ objs = {}
    /\ freed = <<>>
    /\ recent = {}
    /\ wild = 0
    /\ streak = 0
    /\ last = Call("init", "ok", NULL)
    /\ dtor = NULL

PoolStart == PoolInit /\ ComInit /\ TrackInit /\ OwnInit /\ PeerInit

PoolSpec == PoolStart /\ [][PoolNext]_vars

ComStart == PoolIdle /\ ComInit /\ TrackInit /\ OwnInit /\ PeerInit

ComSpec == ComStart /\ [][ComNext]_vars

TrackStart == PoolIdle /\ ComInit /\ TrackInit /\ OwnInit /\ PeerInit

TrackSpec == TrackStart /\ [][TrackNext]_vars

\* Owning handles over a pool constructed in zeroed storage.
OwnStart == PoolIdle /\ ComInit /\ TrackInit /\ OwnInit /\ PeerInit

OwnSpec == OwnStart /\ [][OwnNext]_vars

\* The pool alone, constructed in zeroed storage, with elements that may hold the
\* address of a pool entry.
AliasStart == PoolIdle /\ ComInit /\ TrackInit /\ OwnInit /\ PeerInit

AliasSpec == AliasStart /\ [][AliasNext]_vars

\* The pool alone, constructed in zeroed storage, with a constructor that can throw.
ThrowStart == PoolIdle /\ ComInit /\ TrackInit /\ OwnInit /\ PeerInit

ThrowSpec == ThrowStart /\ [][ThrowNext]_vars

\* Two pools, both constructed in zeroed storage.
PairStart == PoolIdle /\ ComInit /\ TrackInit /\ OwnInit /\ PeerInit

PairSpec == PairStart /\ [][PairNext]_vars

(***************************************************************************)
(* PoolAllocator: what the claims speak about                              *)
(***************************************************************************)

\* The object storage of slot i: &_pool[i].mem.
SlotObject(i) == Entry(i) + NextWords

Slots == 0 .. (pool_size - 1)

\* The entries met by following `next` from _next_free, for at most n steps; the
\* walk ends at the first pointer that is not a word of the pool.
RECURSIVE Chain(_, _)
Chain(pEntry, n) ==
    IF n = 0 \/ pEntry \notin PoolAddrs
    THEN <<>>
    ELSE <<pEntry>> \o Chain(_pool[pEntry], n - 1)

FreeList == Chain(_next_free, pool_size + MaxWild + 1)

\* How often slot i is met on the free list.
TimesOnFreeList(i) == Cardinality({k \in DOMAIN FreeList : FreeList[k] = Entry(i)})

Tagged(i) == _pool[Entry(i)] = ENTRY_IN_USE

IsFree(i) == TimesOnFreeList(i) = 1 /\ ~Tagged(i)

IsLive(i) == Tagged(i) /\ TimesOnFreeList(i) = 0

\* An address outside the storage of the pool.
OutsideStorage(p) == p < PoolBase \/ p >= PoolEnd

\* C1: construct called when getAllocCount() == pool_size throws std::bad_alloc and
\* leaves the allocation count, the free-list head and every slot as they were.
C1_FullConstructThrows ==
    [][(getAllocCount = pool_size /\ last'.op = "construct")
          => (last'.res = "bad_alloc" /\ UNCHANGED poolVars)]_vars

C1_Witness ==
    /\ last.op = "construct"
    /\ last.res = "bad_alloc"
    /\ getAllocCount = pool_size

\* C2: for an object construct returned and that is not yet destructed, the first
\* destruct succeeds and lowers getAllocCount() by exactly 1; a second destruct on
\* the same pointer with no construct in between throws std::invalid_argument.
C2_DestructOnceThenThrows ==
    [][/\ \A p \in objs :
            /\ Accepts(p)
            /\ (last'.op = "destruct" /\ p \notin objs')
                  => (getAllocCount >= 1 /\ getAllocCount' = getAllocCount - 1)
       /\ \A p \in recent' : ~Accepts(p)']_vars

\* C3: destruct on an address outside the pool's storage, never returned by
\* construct, throws std::invalid_argument whatever the fill state of the pool.
C3_ForeignPointerThrows ==
    \A p \in Pointers : (OutsideStorage(p) /\ p \notin objs) => ~Accepts(p)

C5_LifoReuse ==
    [][(freed # <<>> /\ last'.op = "construct")
          => (last'.res = "ok" /\ last'.ret = Head(freed))]_vars

\* C6: every slot is either FREE (on the free list exactly once, not tagged) or
\* LIVE (tagged in-use, not on the free list), never both and never neither.
C6_SlotFreeOrLive ==
    \A i \in Slots : (IsFree(i) /\ ~IsLive(i)) \/ (IsLive(i) /\ ~IsFree(i))

\* C7: getFreeCount() + getAllocCount() == getPoolSize() with
\* 0 <= getAllocCount() <= pool_size, and with every constructed object destructed
\* the pool reports getFreeCount() == pool_size and getAllocCount() == 0.
C7_CountsBalance ==
    /\ getFreeCount + getAllocCount = getPoolSize
    /\ getAllocCount \in 0 .. pool_size
    /\ objs = {} => (getFreeCount = pool_size /\ getAllocCount = 0)

(***************************************************************************)
(* com_ptr: what the claims speak about                                    *)
(***************************************************************************)

\* The handles that exist and are bound to the resource at r.
BoundTo(r) == {h \in alive : Get(h) = r}

\* C8: for a resource wrapped from a raw pointer exactly once (and no handle
\* assigned to itself), after any sequence of copy and move constructions, copy and
\* move assignments, null-assignments and destructions the net reference count
\* 1 + AddRef calls - Release calls equals the number of handles bound to it, and is
\* 0 once they are all destroyed.
C8_CountMatchesHandles ==
    \A r \in Resources :
        wrapped[r] = "once" => GetRefCount(r) = Cardinality(BoundTo(r))

C8_Witness ==
    \E r \in Resources :
        /\ wrapped[r] = "once"
        /\ BoundTo(r) = {}
        /\ m_AddCount[r] = 2
        /\ m_DecCount[r] = 2
        /\ GetRefCount(r) = 0

\* C9: constructing a com_ptr from a raw pointer r yields a handle bound to r
\* (Get() == r) without calling AddRef or Release.
C9_RawConstructTakesNoReference ==
    [][(comLast'.op = "raw" /\ comLast'.src # NULL)
          => /\ comLast'.dst \in alive'
             /\ m_pUnknown'[comLast'.dst] = comLast'.src
             /\ calls' = <<>>
             /\ m_AddCount' = m_AddCount
             /\ m_DecCount' = m_DecCount]_vars

C9_Witness ==
    /\ comLast.op = "raw"
    /\ comLast.src # NULL
    /\ Get(comLast.dst) = comLast.src
    /\ calls = <<>>

\* C10: copy-constructing from a handle bound to r yields a new handle bound to r,
\* leaves the source bound to r, and calls AddRef on r exactly once and Release
\* zero times.
C10_CopyConstructAddsOneReference ==
    [][(comLast'.op = "copy" /\ m_pUnknown[comLast'.src] # NULL)
          => LET r == m_pUnknown[comLast'.src] IN
             /\ comLast'.dst \in alive'
             /\ comLast'.dst # comLast'.src
             /\ m_pUnknown'[comLast'.dst] = r
             /\ m_pUnknown'[comLast'.src] = r
             /\ calls' = << <<"AddRef", r>> >>
             /\ m_AddCount' = [m_AddCount EXCEPT ![r] = @ + 1]
             /\ m_DecCount' = m_DecCount]_vars

C10_Witness ==
    /\ comLast.op = "copy"
    /\ Get(comLast.src) # NULL
    /\ Get(comLast.dst) = Get(comLast.src)
    /\ calls = << <<"AddRef", Get(comLast.src)>> >>

\* The two states of a handle.
IsNull(h) == Get(h) = NULL

IsBound(h) == Get(h) \in Resources

\* The counters of every resource stay as they are.
NoCalls == calls' = <<>> /\ m_AddCount' = m_AddCount /\ m_DecCount' = m_DecCount

\* Exactly one Release call, on r, is made.
OneRelease(r) ==
    /\ calls' = << <<"Release", r>> >>
    /\ m_DecCount' = [m_DecCount EXCEPT ![r] = @ + 1]
    /\ m_AddCount' = m_AddCount

\* C11: destroying a handle bound to r calls r.Release() exactly once and AddRef
\* zero times, and changes the counts of no other resource.
C11_DestroyReleasesOnce ==
    [][(comLast'.op = "destroy" /\ IsBound(comLast'.dst))
          => /\ OneRelease(Get(comLast'.dst))
             /\ comLast'.dst \notin alive']_vars

C11_Witness ==
    /\ comLast.op = "destroy"
    /\ Len(calls) = 1
    /\ calls[1][1] = "Release"
    /\ \E r \in Resources : m_DecCount[r] = 0

\* C12 as the specification words it: move construction and move assignment hand
\* the source's resource to the destination without any AddRef or Release call,
\* and the source becomes NULL.
C12_MoveMakesNoCalls ==
    [][(comLast'.op \in {"move", "move_assign"})
          => /\ NoCalls
             /\ m_pUnknown'[comLast'.dst] = Get(comLast'.src)
             /\ m_pUnknown'[comLast'.src] = NULL]_vars

\* C12: move construction makes no AddRef or Release call; move assignment makes no
\* AddRef call and exactly one Release call, on the resource the destination held,
\* when the destination was bound, and no call when it was NULL. The destination
\* ends up holding what the source held, and a source that is another handle than
\* the destination becomes NULL.
C12_MoveReleasesOnlyOldTarget ==
    [][(comLast'.op \in {"move", "move_assign"})
          => LET dst == comLast'.dst
                 src == comLast'.src
             IN
             /\ IF comLast'.op = "move_assign" /\ IsBound(dst)
                THEN OneRelease(Get(dst))
                ELSE NoCalls
             /\ m_pUnknown'[dst] = Get(src)
             /\ src # dst => m_pUnknown'[src] = NULL]_vars

C12_Witness ==
    /\ comLast.op = "move_assign"
    /\ comLast.src # comLast.dst
    /\ Len(calls) = 1
    /\ calls[1][1] = "Release"
    /\ IsBound(comLast.dst)
    /\ IsNull(comLast.src)

\* C13: copy-assigning a source bound to r into a different destination: a
\* destination bound to r2 gets r2.Release() once and then r.AddRef() once, in this
\* order; a NULL destination gets only r.AddRef() once. The destination ends up
\* bound to r and the source stays bound to r.
C13_CopyAssignReleasesThenAdds ==
    [][(/\ comLast'.op = "copy_assign"
        /\ comLast'.src # comLast'.dst
        /\ IsBound(comLast'.src))
          => LET dst == comLast'.dst
                 r == Get(comLast'.src)
                 r2 == Get(dst)
                 released == IF IsBound(dst) THEN Release(r2, Before) ELSE Before
                 expected == AddRef(r, released)
             IN
             /\ calls' = (IF IsBound(dst) THEN << <<"Release", r2>> >> ELSE <<>>)
                             \o << <<"AddRef", r>> >>
             /\ m_AddCount' = expected.add
             /\ m_DecCount' = expected.dec
             /\ m_pUnknown'[dst] = r
             /\ m_pUnknown'[comLast'.src] = r]_vars

C13_Witness ==
    /\ comLast.op = "copy_assign"
    /\ comLast.src # comLast.dst
    /\ Len(calls) = 2
    /\ calls[1][1] = "Release"
    /\ calls[2][1] = "AddRef"
    /\ calls[1][2] # calls[2][2]
    /\ Get(comLast.dst) = calls[2][2]

\* C14: move-assigning a source bound to r1 into a different destination bound to
\* another resource r2 calls r2.Release() exactly once, makes no AddRef or Release
\* call on r1, and leaves the destination bound to r1 and the source NULL.
C14_MoveAssignOverBound ==
    [][(/\ comLast'.op = "move_assign"
        /\ comLast'.src # comLast'.dst
        /\ IsBound(comLast'.src)
        /\ IsBound(comLast'.dst)
        /\ Get(comLast'.src) # Get(comLast'.dst))
          => LET r1 == Get(comLast'.src)
                 r2 == Get(comLast'.dst)
             IN
             /\ OneRelease(r2)
             /\ m_AddCount'[r1] = m_AddCount[r1]
             /\ m_DecCount'[r1] = m_DecCount[r1]
             /\ m_pUnknown'[comLast'.dst] = r1
             /\ m_pUnknown'[comLast'.src] = NULL]_vars

C14_Witness ==
    /\ comLast.op = "move_assign"
    /\ comLast.src # comLast.dst
    /\ IsBound(comLast.dst)
    /\ IsNull(comLast.src)
    /\ calls = << <<"Release", CHOOSE r \in Resources : r # Get(comLast.dst)>> >>

\* C15: assigning nullptr to a handle bound to r calls r.Release() exactly once,
\* calls no AddRef, and leaves the handle NULL (Get() == nullptr).
C15_AssignNullReleasesOnce ==
    [][(comLast'.op = "assign_null" /\ IsBound(comLast'.dst))
          => /\ OneRelease(Get(comLast'.dst))
             /\ m_pUnknown'[comLast'.dst] = NULL
             /\ comLast'.dst \in alive']_vars

C15_Witness ==
    /\ comLast.op = "assign_null"
    /\ Len(calls) = 1
    /\ calls[1][1] = "Release"
    /\ IsNull(comLast.dst)

\* C16: GetPP() on a handle that is bound always throws std::logic_error, and the
\* failed call leaves the handle bound to the same resource with no AddRef or
\* Release made.
C16_GetPPOnBoundThrows ==
    [][(comLast'.op \in {"GetPP", "GetPP_logic_error"} /\ IsBound(comLast'.dst))
          => /\ comLast'.op = "GetPP_logic_error"
             /\ m_pUnknown'[comLast'.dst] = Get(comLast'.dst)
             /\ slot' = NULL
             /\ NoCalls]_vars

C16_Witness ==
    /\ comLast.op = "GetPP_logic_error"
    /\ IsBound(comLast.dst)

\* C17: GetPP() on a NULL handle succeeds and returns the handle's own pointer
\* slot; once a resource r is written through that slot the handle is bound to r
\* (Get() == r) with no AddRef or Release call made, and a later destruction of the
\* handle calls r.Release() exactly once.
C17_GetPPBindsWithoutCounting ==
    [][/\ (comLast'.op \in {"GetPP", "GetPP_logic_error"} /\ IsNull(comLast'.dst))
          => /\ comLast'.op = "GetPP"
             /\ slot' = comLast'.dst
             /\ m_pUnknown' = m_pUnknown
             /\ NoCalls
       /\ (comLast'.op = "write" /\ comLast'.src # NULL)
          => /\ comLast'.dst = slot
             /\ m_pUnknown'[slot] = comLast'.src
             /\ NoCalls
       /\ (comLast'.op = "destroy" /\ comLast'.dst \in filled)
          => OneRelease(Get(comLast'.dst))]_vars

C17_Witness ==
    /\ comLast.op = "write"
    /\ comLast.dst \in filled
    /\ IsBound(comLast.dst)
    /\ Get(comLast.dst) = comLast.src
    /\ calls = <<>>

\* C18: a == b holds iff both handles reference the same resource address or both
\* are NULL, and a != b is the negation of a == b; a == nullptr holds iff a is NULL
\* and a != nullptr iff a is bound; handles wrapping distinct resources never
\* compare equal.
C18_EqualityIsIdentity ==
    \A a \in alive : \A b \in alive :
        /\ Equals(a, b) <=> \/ (IsBound(a) /\ IsBound(b) /\ Get(a) = Get(b))
                            \/ (IsNull(a) /\ IsNull(b))
        /\ NotEquals(a, b) <=> ~Equals(a, b)
        /\ EqualsNull(a) <=> IsNull(a)
        /\ NotEqualsNull(a) <=> IsBound(a)
        /\ (IsBound(a) /\ IsBound(b) /\ Get(a) # Get(b)) => ~Equals(a, b)

C18_Witness ==
    \E a \in alive : \E b \in alive :
        /\ a # b
        /\ IsBound(a)
        /\ IsBound(b)
        /\ Get(a) # Get(b)
        /\ NotEquals(a, b)
        /\ ~Equals(a, b)

\* C19: the boolean conversion of a handle is true iff the handle is bound, in
\* every state reached by construction, copy, move, assignment and null-assignment;
\* it is false for a handle another handle was moved from and for a handle that was
\* assigned nullptr.
C19_BoolIffBound ==
    [][/\ \A h \in alive' : Bool(h)' <=> m_pUnknown'[h] \in Resources
       /\ \A h \in Handles :
             (/\ comLast'.op \in {"move", "move_assign"}
              /\ comLast'.src = h
              /\ comLast'.dst # h) => ~Bool(h)'
       /\ \A h \in Handles :
             (comLast'.op = "assign_null" /\ comLast'.dst = h) => ~Bool(h)']_vars

C19_Witness ==
    /\ comLast.op = "move_assign"
    /\ comLast.src # comLast.dst
    /\ ~Bool(comLast.src)
    /\ Bool(comLast.dst)

\* C20: a default-constructed handle and a handle constructed from a null raw
\* pointer are NULL; copy-constructing from a NULL handle, assigning nullptr to a
\* NULL handle and destroying a NULL handle make no AddRef or Release call and
\* produce or leave state NULL.
C20_NullHandlesMakeNoCalls ==
    [][/\ (comLast'.op = "default" \/ (comLast'.op = "raw" /\ comLast'.src = NULL))
          => (m_pUnknown'[comLast'.dst] = NULL /\ NoCalls)
       /\ (comLast'.op = "copy" /\ IsNull(comLast'.src))
          => /\ m_pUnknown'[comLast'.dst] = NULL
             /\ m_pUnknown'[comLast'.src] = NULL
             /\ NoCalls
       /\ (comLast'.op \in {"assign_null", "destroy"} /\ IsNull(comLast'.dst))
          => (m_pUnknown'[comLast'.dst] = NULL /\ NoCalls)]_vars

C20_Witness ==
    /\ comLast.op = "copy"
    /\ comLast.dst \in alive
    /\ IsNull(comLast.src)
    /\ IsNull(comLast.dst)
    /\ calls = <<>>

(***************************************************************************)
(* TrackingAllocator: what the claims speak about                          *)
(***************************************************************************)

\* The blocks that are live allocations.
LiveBlocks == {b \in Blocks : heap[b].live}

\* The sum of the sizes recorded in the headers of the blocks in bs.
RECURSIVE RecordedSum(_)
RecordedSum(bs) ==
    IF bs = {} THEN 0
    ELSE LET b == CHOOSE x \in bs : TRUE IN heap[b].header + RecordedSum(bs \ {b})

\* C21: while deallocate is only given pointers that are live allocations,
\* getNumAllocations() equals the number of live allocations and
\* getTotalAllocationsSize() the sum of their recorded sizes; both are 0 once every
\* allocation has been deallocated.
C21_CountersMatchLiveBlocks ==
    ~misused =>
        /\ getNumAllocations = Cardinality(LiveBlocks)
        /\ getTotalAllocationsSize = RecordedSum(LiveBlocks)
        /\ LiveBlocks = {} => (getNumAllocations = 0 /\ getTotalAllocationsSize = 0)

C21_Witness ==
    /\ ~misused
    /\ tLast.op = "deallocate"
    /\ tLast.arg # NULL
    /\ Cardinality(LiveBlocks) = 1
    /\ getNumAllocations = 1
    /\ getTotalAllocationsSize > HeaderBytes

\* C22: allocate(n) followed at once by deallocate of the pointer it returned puts
\* getNumAllocations() and getTotalAllocationsSize() back to their values before
\* the allocate.
C22_AllocateDeallocateRoundTrip ==
    [][(/\ tLast.op = "allocate"
        /\ tLast.res = "ok"
        /\ tLast'.op = "deallocate"
        /\ tLast'.arg = tLast.ret)
          => /\ tLast'.res = "ok"
             /\ getNumAllocations' = before.num
             /\ getTotalAllocationsSize' = before.total]_vars

C22_Witness ==
    /\ tLast.op = "deallocate"
    /\ tLast.res = "ok"
    /\ tLast.arg # NULL
    /\ ~misused
    /\ before.num >= 1
    /\ getNumAllocations = before.num
    /\ getTotalAllocationsSize = before.total

\* C23: deallocate(nullptr) is a no-op in every state: both counters are unchanged
\* and no block is released.
C23_DeallocateNullIsNoOp ==
    [][(tLast'.op = "deallocate" /\ tLast'.arg = NULL)
          => /\ tLast'.res = "ok"
             /\ tcalls' = <<>>
             /\ UNCHANGED <<_numAllocations, _totalAllocationsSize, heap>>]_vars

C23_Witness ==
    /\ tLast.op = "deallocate"
    /\ tLast.arg = NULL
    /\ getNumAllocations >= 1
    /\ LiveBlocks # {}

\* C24: a successful allocate(n) raises getNumAllocations() by exactly 1 and
\* getTotalAllocationsSize() by exactly 8 + n * sizeof(T), and stores that same size
\* in the header of the block.
C24_AllocateAddsHeaderAndPayload ==
    [][(tLast'.op = "allocate" /\ tLast'.res = "ok")
          => LET n == tLast'.arg IN
             /\ getNumAllocations' = getNumAllocations + 1
             /\ getTotalAllocationsSize' - getTotalAllocationsSize
                    = HeaderBytes + (n * ElemSize)
             /\ ~Wrapped(n)
             /\ heap'[tLast'.ret].header = HeaderBytes + (n * ElemSize)]_vars

\* C25: when malloc cannot satisfy the request, allocate throws std::bad_alloc
\* after that one malloc call, and both counters are unchanged by the failed call.
C25_AllocateFailureThrows ==
    [][(/\ tLast'.op = "allocate"
        /\ tcalls' # <<>>
        /\ tcalls'[1][1] = "malloc"
        /\ tcalls'[1][3] = NULL
        /\ tLast'.res # "undefined")
          => /\ tLast'.res = "bad_alloc"
             /\ Len(tcalls') = 1
             /\ UNCHANGED <<_numAllocations, _totalAllocationsSize, heap>>]_vars

C25_Witness ==
    /\ tLast.op = "allocate"
    /\ tLast.res = "bad_alloc"
    /\ getNumAllocations >= 1

(***************************************************************************)
(* Owning handles: what the claims speak about                             *)
(***************************************************************************)

\* This step releases one owner of the object at p.
Releases(p) ==
    /\ owner[p].kind # "none"
    /\ owner'[p].count < owner[p].count

\* C26: releasing the unique owner or the last shared owner of a live object made
\* by make_unique / make_shared runs destruct on it in the pool, successfully, so
\* that getAllocCount() drops by 1; releasing a shared owner that is not the last
\* one calls nothing on the pool.
C26_LastOwnerDestructsOnce ==
    [][\A p \in Pointers :
          (p \in objs /\ Releases(p))
             => IF LastOwner(p)
                THEN /\ last' = Call("destruct", "ok", NULL)
                     /\ dtor' = p
                     /\ getAllocCount' = getAllocCount - 1
                ELSE UNCHANGED <<poolVars, last, dtor>>]_vars

(***************************************************************************)
(* PoolAllocator: reset, rejected pointers, addresses handed out           *)
(***************************************************************************)

\* C27: reset() called in any state leaves getAllocCount() == 0 and getFreeCount()
\* == pool_size, the free list holding every slot exactly once and nothing else, no
\* slot tagged in-use, and runs no element destructor.
C27_ResetEmptiesPool ==
    [][last'.op = "reset"
          => /\ getAllocCount' = 0
             /\ getFreeCount' = pool_size
             /\ Len(FreeList') = pool_size
             /\ \A i \in Slots : IsFree(i)'
             /\ dtor' = NULL]_vars

C27_Witness ==
    /\ last.op = "reset"
    /\ wild = MaxWild
    /\ \E a \in PoolAddrs : _pool[a] = ENTRY_IN_USE
    /\ getAllocCount = 0
    /\ \A i \in Slots : IsFree(i)

\* C28: destruct throws std::invalid_argument for every pointer whose resolved
\* entry lies within the pool's range but which is not the address of a live
\* object: a freed slot, a never-allocated slot, an interior address.
C28_NonLivePointerThrows ==
    \A p \in Pointers :
        (~OutsidePool(getEntry(p)) /\ p \notin objs) => ~Accepts(p)

\* C29: construct never returns the address of an object that is live at the
\* time of the call.
C29_ConstructReturnsNoLiveObject ==
    [][(last'.op = "construct" /\ last'.res = "ok") => last'.ret \notin objs]_vars

(***************************************************************************)
(* com_ptr: several handles made from one raw pointer                      *)
(***************************************************************************)

\* C30: over any sequence of com_ptr operations, constructing several handles from
\* the same raw pointer included, the Release calls on a resource never exceed 1 +
\* its AddRef calls: the net reference count is never negative.
C30_NetCountNeverNegative ==
    \A r \in Resources : GetRefCount(r) >= 0

(***************************************************************************)
(* com_ptr: a handle assigned to itself                                    *)
(***************************************************************************)

\* The net reference count of the resource at r after the first k calls of the
\* call sequence cs, made from the present state.
NetAfter(r, cs, k) ==
    GetRefCount(r)
        + Cardinality({i \in 1 .. k : cs[i] = <<"AddRef", r>>})
        - Cardinality({i \in 1 .. k : cs[i] = <<"Release", r>>})

\* C31: move-assigning a handle bound to r to itself leaves it bound to r and
\* leaves the AddRef and Release counts of r as they were.
C31_SelfMoveAssignIsNoOp ==
    [][(/\ comLast'.op = "move_assign"
        /\ comLast'.dst = comLast'.src
        /\ m_pUnknown[comLast'.dst] # NULL)
          => /\ m_pUnknown'[comLast'.dst] = m_pUnknown[comLast'.dst]
             /\ m_AddCount' = m_AddCount
             /\ m_DecCount' = m_DecCount]_vars

\* C32: copy-assigning a handle bound to r to itself while the net count of r is 1
\* never brings that count to 0 between the calls the assignment makes, and ends
\* with the handle bound to r and the net count 1.
C32_SelfCopyAssignKeepsResourceAlive ==
    [][(/\ comLast'.op = "copy_assign"
        /\ comLast'.dst = comLast'.src
        /\ m_pUnknown[comLast'.dst] # NULL
        /\ GetRefCount(m_pUnknown[comLast'.dst]) = 1)
          => LET r == m_pUnknown[comLast'.dst] IN
             /\ \A k \in 1 .. Len(calls') : NetAfter(r, calls', k) > 0
             /\ m_pUnknown'[comLast'.dst] = r
             /\ m_AddCount'[r] - m_DecCount'[r] = 1]_vars

(***************************************************************************)
(* PoolAllocator: calls that throw, two pools, the shape of the free list  *)
(***************************************************************************)

\* C33: a destruct call that throws std::invalid_argument leaves getAllocCount(),
\* the free-list head and every word of every slot as they were before the call,
\* and runs no element destructor.
C33_RejectedDestructChangesNothing ==
    [][(last'.op = "destruct" /\ last'.res = "invalid_argument")
          => /\ UNCHANGED poolVars
             /\ getAllocCount' = getAllocCount
             /\ \A i \in Slots : (Tagged(i)' <=> Tagged(i))
             /\ FreeList' = FreeList
             /\ dtor' = NULL]_vars

C33_Witness ==
    /\ last.op = "destruct"
    /\ last.res = "invalid_argument"
    /\ objs # {}
    /\ getAllocCount >= 1
    /\ freed # <<>>

\* The members of B.
PeerState == <<peer.allocation_count, peer.next_free, peer.pool>>

\* C34: with two pools A and B of one type and pool_size, sharing the in-use
\* marker, destruct called on one pool with an object that is live in the other
\* throws std::invalid_argument and leaves the count, the free list and every
\* slot of both pools as they were; A rejects every address inside B.
C34_OtherPoolsObjectThrows ==
    [][/\ (/\ peer'.last.on = "A"
           /\ peer'.last.op = "destruct"
           /\ peer'.last.arg \in peer.objs)
             => /\ peer'.last.res = "invalid_argument"
                /\ last'.res = "invalid_argument"
                /\ UNCHANGED poolVars
                /\ PeerState' = PeerState
       /\ (/\ peer'.last.on = "B"
           /\ peer'.last.op = "destruct"
           /\ peer'.last.arg \in objs)
             => /\ peer'.last.res = "invalid_argument"
                /\ UNCHANGED poolVars
                /\ PeerState' = PeerState
       /\ \A p \in PeerPointers : ~Accepts(p)]_vars

C34_Witness ==
    /\ peer.last = PeerCall("A", "destruct", "invalid_argument", peer.last.arg)
    /\ peer.last.arg \in peer.objs
    /\ peer.pool[peer.last.arg] = ENTRY_IN_USE
    /\ objs # {}
    /\ getAllocCount >= 1
    /\ peer.allocation_count >= 1

\* The pointer at which the walk of Chain stops: the first one that is not a word
\* of the pool, or the one reached after n steps.
RECURSIVE ChainEnd(_, _)
ChainEnd(pEntry, n) ==
    IF n = 0 \/ pEntry \notin PoolAddrs
    THEN pEntry
    ELSE ChainEnd(_pool[pEntry], n - 1)

\* C35: in every reachable state _allocation_count equals the number of slots
\* tagged in-use, and the free list from _next_free has no entry twice, ends in
\* null and consists of exactly pool_size - _allocation_count slots.
C35_CountMatchesTagsAndFreeList ==
    /\ _allocation_count = Cardinality({i \in Slots : Tagged(i)})
    /\ \A j, k \in DOMAIN FreeList : FreeList[j] = FreeList[k] => j = k
    /\ ChainEnd(_next_free, pool_size + MaxWild + 1) = NULL
    /\ \A k \in DOMAIN FreeList : \E i \in Slots : FreeList[k] = Entry(i)
    /\ Len(FreeList) = pool_size - _allocation_count

\* C36: when the constructor of the element throws inside construct, the pool is
\* as before the call: getAllocCount() is not incremented, and the slot construct
\* took is still the head of the free list and is not tagged in-use.
C36_ThrowingConstructorChangesNothing ==
    [][(last'.op = "construct" /\ last'.res = "exception")
          => /\ getAllocCount' = getAllocCount
             /\ _next_free' = _next_free
             /\ _pool'[_next_free] # ENTRY_IN_USE]_vars

(***************************************************************************)
(* TrackingAllocator: the size allocate computes                           *)
(***************************************************************************)

\* C37: for every element count n the size allocate computes, asks malloc for and
\* records is 8 + n * sizeof(T) without wrap-around: it is never smaller than the
\* header, and never smaller than the header plus the payload asked for.
C37_SizeDoesNotWrap ==
    [][(tLast'.op = "allocate" /\ tcalls' # <<>>)
          => LET n == tLast'.arg
                 size == tcalls'[1][2]
             IN
             /\ tcalls'[1][1] = "malloc"
             /\ ~Wrapped(n)
             /\ size >= HeaderBytes
             /\ tLast'.res = "ok" => heap'[tLast'.ret].header >= HeaderBytes]_vars

(***************************************************************************)
(* PoolAllocator: the order in which a fresh pool hands out its slots      *)
(***************************************************************************)

\* C38: on a pool just constructed or just reset, successive construct calls hand
\* out the slots in descending index order: the first returns slot pool_size - 1,
\* the next slot pool_size - 2, and the pool_size-th returns slot 0.
C38_FreshPoolDescendingOrder ==
    [][(streak \in 0 .. (pool_size - 1) /\ last'.op = "construct")
          => /\ last'.res = "ok"
             /\ last'.ret = SlotObject(pool_size - 1 - streak)]_vars

C38_Witness ==
    /\ streak = pool_size
    /\ last = Call("construct", "ok", SlotObject(0))
    /\ objs = {SlotObject(i) : i \in Slots}

=============================================================================
